---- MODULE Spec2Model ----
(***************************************************************************)
(* karton-dashboard: the state aggregation (KartonState), the per-entity   *)
(* routes, the prometheus export (varz) and the routing graph              *)
(* (KartonGraph), over a model of the redis backing store.                 *)
(***************************************************************************)
EXTENDS Integers, Sequences, FiniteSets, TLC

(***************************************************************************)
(* Bounds of the model.                                                    *)
(***************************************************************************)
MaxTasks == 2
MaxTime == 2
MaxFilters == 2
MaxClients == 2

TaskIds == 1..MaxTasks
Times == 1..MaxTime

(***************************************************************************)
(* Sample values.  An identity is the sequence of its characters, so that  *)
(* lower-casing and the regular expression of varz act on characters.      *)
(***************************************************************************)
Identities == {<<"A">>, <<"a">>, <<"b", ".">>}
CoreIdentities == {<<"a">>, <<"b", ".">>}
Roots == {"R1", "R2"}

\* karton.core.task.TaskState and TaskPriority (values of the enumerations)
SPAWNED == "Spawned"
CRASHED == "Crashed"
FINISHED == "Finished"
TaskState == {SPAWNED, CRASHED, FINISHED}
NORMAL == "normal"
HIGH == "high"
TaskPriority == {NORMAL, HIGH}

\* what redis returns for a key that does not exist
NoneTask == [none |-> TRUE]

\* the headers of a task: with or without the receiver key
HeadersOf(ids) ==
    {[type |-> "sample"]} \cup {[type |-> "sample", receiver |-> i] : i \in ids}

\* serialized task records (the JSON stored under karton.task:<uid>)
TaskRecords(uid, ids, roots, times, priorities) ==
    [uid : {uid}, headers : HeadersOf(ids), status : TaskState,
     root_uid : roots, last_update : times, priority : priorities]


VARIABLES
    rs_binds,       \* the redis hash karton.binds: identity -> registration
    rs_outputs,     \* the declared outputs: identity -> list of output descriptors
    rs_tasks,       \* karton.task:<uid> -> serialized task, NoneTask if absent
    rs_clients,     \* the redis client list: one [name] per connection
    pc,             \* the request being served: [op, arg], op = "idle" if none
    keys,           \* the task keys enumerated by the request being served
    fetched,        \* the values mget returned to the last KartonState()
    state,          \* the last KartonState: [queues, analyses]
    response,       \* the last response: [op, arg, code, body]
    karton_tasks,   \* the Gauge karton_tasks: labels -> value
    karton_replicas,\* the Gauge karton_replicas: labels -> value
    threads         \* the varz requests served side by side: worker -> its locals

store == <<rs_binds, rs_outputs, rs_tasks, rs_clients>>
request == <<pc, keys, fetched, state, response>>
gauges == <<karton_tasks, karton_replicas>>
vars == <<rs_binds, rs_outputs, rs_tasks, rs_clients, pc, keys, fetched, state, response,
          karton_tasks, karton_replicas, threads>>

EmptyDict == [k \in {} |-> {}]
Idle == [op |-> "idle", arg |-> <<>>]
NoState == [queues |-> EmptyDict, analyses |-> EmptyDict]
NoResponse == [op |-> "none", arg |-> <<>>, code |-> 0, body |-> <<>>]

\* an optional value: None, or the value
None == <<>>
Some(x) == <<x>>

\* the threads of the WSGI server that serve requests side by side
Workers == {"w1", "w2"}

\* the locals of a thread that serves no request
IdleThread == [pc |-> "idle", queues |-> EmptyDict, order |-> <<>>, i |-> 0,
               response |-> None]

Perms(S) == {s \in [1..Cardinality(S) -> S] : \A i, j \in 1..Cardinality(S) : s[i] = s[j] => i = j}

(***************************************************************************)
(* src/src/app.py: Queue, Task, Analysis, KartonState                      *)
(***************************************************************************)
Task(data) == [taskid |-> data.uid, data |-> data]

Queue(name, registration) ==
    [name |-> name, tasks |-> <<>>, crashed |-> <<>>,
     binds |-> registration.filters, version |-> registration.version,
     replicas |-> 0]

Analysis(uid) == [rootid |-> uid, queues |-> EmptyDict]

\* add_task that starts a fresh list on every call
Analysis_add_task_Overwrite(analysis, identity, taskdata) ==
    [analysis EXCEPT !.queues =
        [k \in DOMAIN analysis.queues \cup {identity} |->
            IF k = identity THEN <<Task(taskdata)>> ELSE analysis.queues[k]]]

Analysis_add_task(analysis, identity, taskdata) ==
    LET queues1 == IF identity \notin DOMAIN analysis.queues
                   THEN analysis.queues @@ (identity :> <<>>)
                   ELSE analysis.queues
    IN [analysis EXCEPT !.queues =
            [queues1 EXCEPT ![identity] = Append(queues1[identity], Task(taskdata))]]

\* the four early "continue"s of the loop over mget's values
KartonState_skip_NoFinishedCheck(queues, task) ==
    \/ task = NoneTask
    \/ "receiver" \notin DOMAIN task.headers
    \/ task.headers.receiver \notin DOMAIN queues

KartonState_skip(queues, task) ==
    \/ task = NoneTask
    \/ "receiver" \notin DOMAIN task.headers
    \/ task.status = FINISHED
    \/ task.headers.receiver \notin DOMAIN queues

\* the routing of a task into its queue's crashed or pending list
KartonState_route_CrashedAlsoPending(queues, queue_name, taskdata) ==
    IF taskdata.status = CRASHED
    THEN [queues EXCEPT ![queue_name].crashed = Append(@, Task(taskdata)),
                        ![queue_name].tasks = Append(@, Task(taskdata))]
    ELSE [queues EXCEPT ![queue_name].tasks = Append(@, Task(taskdata))]

KartonState_route(queues, queue_name, taskdata) ==
    IF taskdata.status = CRASHED
    THEN [queues EXCEPT ![queue_name].crashed = Append(@, Task(taskdata))]
    ELSE [queues EXCEPT ![queue_name].tasks = Append(@, Task(taskdata))]

\* one iteration of the loop over mget's values
KartonState_task(st, task) ==
    IF KartonState_skip(st.queues, task) THEN st
    ELSE LET queue_name == task.headers.receiver
             root_uid == task.root_uid
             analyses1 == IF root_uid \notin DOMAIN st.analyses
                          THEN st.analyses @@ (root_uid :> Analysis(root_uid))
                          ELSE st.analyses
         IN [queues |-> KartonState_route(st.queues, queue_name, task),
             analyses |-> [analyses1 EXCEPT ![root_uid] =
                              Analysis_add_task(analyses1[root_uid], queue_name, task)]]

\* the loop over mget's values, stopping at the first absent value
RECURSIVE KartonState_tasks_BreakOnNone(_, _, _)
KartonState_tasks_BreakOnNone(st, values, i) ==
    IF i > Len(values) \/ values[i] = NoneTask THEN st
    ELSE KartonState_tasks_BreakOnNone(KartonState_task(st, values[i]), values, i + 1)

RECURSIVE KartonState_tasks(_, _, _)
KartonState_tasks(st, values, i) ==
    IF i > Len(values) THEN st
    ELSE KartonState_tasks(KartonState_task(st, values[i]), values, i + 1)

\* one iteration of the replicas loop that marks the queue instead of counting
KartonState_client_Mark(queues, client) ==
    LET queue_name == client.name
    IN IF queue_name \notin DOMAIN queues THEN queues
       ELSE [queues EXCEPT ![queue_name].replicas = 1]

\* one iteration of the replicas loop (lines 168-173)
KartonState_client(queues, client) ==
    LET queue_name == client.name
    IN IF queue_name \notin DOMAIN queues THEN queues
       ELSE [queues EXCEPT ![queue_name].replicas = @ + 1]

\* the replicas loop over karton.rs.client_list()
RECURSIVE KartonState_clients(_, _, _)
KartonState_clients(queues, clients, i) ==
    IF i > Len(clients) THEN queues
    ELSE KartonState_clients(KartonState_client(queues, clients[i]), clients, i + 1)

KartonState_replicas(queues, clients) == KartonState_clients(queues, clients, 1)

KartonState(binds, values, clients) ==
    LET st == KartonState_tasks([queues |-> [k \in DOMAIN binds |-> Queue(k, binds[k])],
                                 analyses |-> EmptyDict], values, 1)
    IN [queues |-> KartonState_replicas(st.queues, clients),
        analyses |-> st.analyses]

Queue_to_dict(queue) ==
    [identity |-> queue.name,
     filters |-> queue.binds,
     version |-> queue.version,
     replicas |-> queue.replicas,
     tasks |-> [i \in 1..Len(queue.tasks) |-> queue.tasks[i].taskid],
     crashed |-> [i \in 1..Len(queue.crashed) |-> queue.crashed[i].taskid]]

(***************************************************************************)
(* The backing store: what producers, consumers and karton-system do to it *)
(***************************************************************************)
\* while a request is between its key enumeration and its fetch, only the
\* removal of a task is observable to it
Quiet == pc.op = "idle"

Discard == /\ fetched' = <<>>
           /\ state' = NoState
           /\ response' = NoResponse
           /\ UNCHANGED <<pc, keys>>

\* a producer stores a task; the arguments bound the fields of its record
declare_task(ids, roots, times, priorities) ==
    /\ Quiet
    /\ \E t \in TaskIds : \E r \in TaskRecords(t, ids, roots, times, priorities) :
          /\ rs_tasks[t] = NoneTask
          /\ rs_tasks' = [rs_tasks EXCEPT ![t] = r]
    /\ Discard
    /\ UNCHANGED <<rs_binds, rs_outputs, rs_clients, gauges, threads>>

set_task_status ==
    /\ Quiet
    /\ \E t \in TaskIds : \E s \in TaskState :
          /\ rs_tasks[t] # NoneTask
          /\ rs_tasks[t].status # s
          /\ rs_tasks' = [rs_tasks EXCEPT ![t].status = s]
    /\ Discard
    /\ UNCHANGED <<rs_binds, rs_outputs, rs_clients, gauges, threads>>

\* the garbage collector removes a task; it may do so while a request runs
delete_task ==
    /\ \E t \in TaskIds :
          /\ rs_tasks[t] # NoneTask
          /\ rs_tasks' = [rs_tasks EXCEPT ![t] = NoneTask]
    /\ IF Quiet THEN Discard ELSE UNCHANGED request
    /\ UNCHANGED <<rs_binds, rs_outputs, rs_clients, gauges, threads>>

\* a consumer registers its bind: regs is a set of <<identity, filters>>
register_bind(regs) ==
    /\ Quiet
    /\ \E r \in regs :
          /\ r[1] \notin DOMAIN rs_binds
          /\ rs_binds' = rs_binds @@ (r[1] :> [filters |-> r[2], version |-> "2.x.x"])
    /\ Discard
    /\ UNCHANGED <<rs_outputs, rs_tasks, rs_clients, gauges, threads>>

unregister_bind ==
    /\ Quiet
    /\ \E i \in DOMAIN rs_binds :
          rs_binds' = [k \in DOMAIN rs_binds \ {i} |-> rs_binds[k]]
    /\ Discard
    /\ UNCHANGED <<rs_outputs, rs_tasks, rs_clients, gauges, threads>>

(***************************************************************************)
(* A request that builds a KartonState: the key enumeration, then the      *)
(* fetch and everything after it.                                          *)
(***************************************************************************)
ExistingTasks == {t \in TaskIds : rs_tasks[t] # NoneTask}

\* karton.rs.keys("karton.task:*"): the keys in any order
KartonState_keys(op, args) ==
    /\ pc.op = "idle"
    /\ \E a \in args : pc' = [op |-> op, arg |-> a]
    /\ keys' \in Perms(ExistingTasks)
    /\ fetched' = <<>>
    /\ state' = NoState
    /\ response' = NoResponse
    /\ UNCHANGED <<store, gauges, threads>>

\* karton.rs.mget(keys)
Mget == [i \in 1..Len(keys) |-> rs_tasks[keys[i]]]

Snapshot == KartonState(rs_binds, Mget, rs_clients)

\* src/src/app.py get_queues_api
get_queues_api ==
    /\ pc.op = "get_queues_api"
    /\ fetched' = Mget
    /\ state' = Snapshot
    /\ response' = [op |-> pc.op, arg |-> pc.arg, code |-> 200,
                    body |-> [q \in DOMAIN Snapshot.queues |-> Queue_to_dict(Snapshot.queues[q])]]
    /\ pc' = Idle
    /\ keys' = <<>>
    /\ UNCHANGED <<store, gauges, threads>>

Init ==
    /\ rs_binds = EmptyDict
    /\ rs_outputs = EmptyDict
    /\ rs_tasks = [t \in TaskIds |-> NoneTask]
    /\ rs_clients = <<>>
    /\ pc = Idle
    /\ keys = <<>>
    /\ fetched = <<>>
    /\ state = NoState
    /\ response = NoResponse
    /\ karton_tasks = EmptyDict
    /\ karton_replicas = EmptyDict
    /\ threads = [w \in Workers |-> IdleThread]

Next ==
    \/ declare_task(CoreIdentities, Roots, {1}, {NORMAL})
    \/ set_task_status
    \/ delete_task
    \/ register_bind(CoreIdentities \X {<<>>})
    \/ unregister_bind
    \/ KartonState_keys("get_queues_api", {<<>>})
    \/ get_queues_api

Spec == Init /\ [][Next]_vars

\* the key enumeration of a second KartonState() that follows an answered
\* request while the store is as that request saw it (every change of the
\* store drops the answer); the first answer is kept for comparison
KartonState_keys_again(op) ==
    /\ pc.op = "idle"
    /\ response.op = op
    /\ pc' = [op |-> op, arg |-> response.arg]
    /\ keys' \in Perms(ExistingTasks)
    /\ UNCHANGED <<store, fetched, state, response, gauges, threads>>

NextTwice ==
    \/ declare_task({<<"a">>}, Roots, {1}, {NORMAL})
    \/ set_task_status
    \/ register_bind({<<"a">>} \X {<<>>})
    \/ unregister_bind
    \/ KartonState_keys("get_queues_api", {<<>>})
    \/ KartonState_keys_again("get_queues_api")
    \/ get_queues_api

SpecTwice == Init /\ [][NextTwice]_vars

\* the names connections carry: a consumer's identity, or none
ClientNames == CoreIdentities \cup {<<>>}

\* a client connects to redis under a name
client_connect(names) ==
    /\ Quiet
    /\ Len(rs_clients) < MaxClients
    /\ \E n \in names : rs_clients' = Append(rs_clients, [name |-> n])
    /\ Discard
    /\ UNCHANGED <<rs_binds, rs_outputs, rs_tasks, gauges, threads>>

\* a connection is closed
client_disconnect ==
    /\ Quiet
    /\ \E i \in 1..Len(rs_clients) :
          rs_clients' = SubSeq(rs_clients, 1, i - 1) \o SubSeq(rs_clients, i + 1, Len(rs_clients))
    /\ Discard
    /\ UNCHANGED <<rs_binds, rs_outputs, rs_tasks, gauges, threads>>

NextReplicas ==
    \/ register_bind(CoreIdentities \X {<<>>})
    \/ unregister_bind
    \/ client_connect(ClientNames)
    \/ client_disconnect
    \/ KartonState_keys("get_queues_api", {<<>>})
    \/ get_queues_api

SpecReplicas == Init /\ [][NextReplicas]_vars

(***************************************************************************)
(* src/karton/dashboard/app.py: QueueView, varz and the routes.  The       *)
(* KartonState they build is the aggregation above; a queue's pending      *)
(* tasks are its tasks that are not CRASHED.                               *)
(***************************************************************************)
KartonQueue_pending_tasks(queue) == queue.tasks
KartonQueue_crashed_tasks(queue) == queue.crashed
KartonQueue_tasks(queue) == queue.tasks \o queue.crashed

\* one step of sorted(..., key=last_update, reverse=True): python's sort is
\* stable, also when reversed, so x goes behind the elements that are not older
sorted_insert(list, x) ==
    LET k == Cardinality({i \in 1..Len(list) :
                 list[i].data.last_update >= x.data.last_update})
    IN SubSeq(list, 1, k) \o <<x>> \o SubSeq(list, k + 1, Len(list))

RECURSIVE sorted_from(_, _, _)
sorted_from(done, list, i) ==
    IF i > Len(list) THEN done
    ELSE sorted_from(sorted_insert(done, list[i]), list, i + 1)

sorted_by_last_update_reverse(list) == sorted_from(<<>>, list, 1)

QueueView_to_dict(queue) ==
    LET tasks == sorted_by_last_update_reverse(KartonQueue_pending_tasks(queue))
        crashed == sorted_by_last_update_reverse(KartonQueue_crashed_tasks(queue))
    IN [identity |-> queue.name,
        filters |-> queue.binds,
        version |-> queue.version,
        replicas |-> queue.replicas,
        tasks |-> [i \in 1..Len(tasks) |-> tasks[i].taskid],
        crashed |-> [i \in 1..Len(crashed) |-> crashed[i].taskid]]

\* src/karton/dashboard/app.py get_queues_api
dashboard_get_queues_api ==
    /\ pc.op = "dashboard_get_queues_api"
    /\ fetched' = Mget
    /\ state' = Snapshot
    /\ response' = [op |-> pc.op, arg |-> pc.arg, code |-> 200,
                    body |-> [q \in DOMAIN Snapshot.queues |->
                                 QueueView_to_dict(Snapshot.queues[q])]]
    /\ pc' = Idle
    /\ keys' = <<>>
    /\ UNCHANGED <<store, gauges, threads>>

NextView ==
    \/ declare_task({<<"a">>}, {"R1"}, Times, {NORMAL})
    \/ delete_task
    \/ register_bind({<<"a">>} \X {<<>>})
    \/ KartonState_keys("dashboard_get_queues_api", {<<>>})
    \/ dashboard_get_queues_api

SpecView == Init /\ [][NextView]_vars

\* dict.get that answers an empty queue for a missing key
dict_get_DefaultQueue(queues, key) ==
    IF key \in DOMAIN queues THEN Some(queues[key])
    ELSE Some(Queue(key, [filters |-> <<>>, version |-> "2.x.x"]))

\* state.queues.get(queue_name)
dict_get(queues, key) ==
    IF key \in DOMAIN queues THEN Some(queues[key]) ELSE None

NotFound(what) == [error |-> what]

\* the part of a route after KartonState(): respond, and write new_tasks
Respond(code, body, new_tasks) ==
    /\ fetched' = Mget
    /\ state' = Snapshot
    /\ response' = [op |-> pc.op, arg |-> pc.arg, code |-> code, body |-> body]
    /\ rs_tasks' = new_tasks
    /\ pc' = Idle
    /\ keys' = <<>>
    /\ UNCHANGED <<rs_binds, rs_outputs, rs_clients, gauges, threads>>

get_queue_api ==
    /\ pc.op = "get_queue_api"
    /\ LET queue == dict_get(Snapshot.queues, pc.arg)
       IN IF queue = None
          THEN Respond(404, NotFound("Queue doesn't exist"), rs_tasks)
          ELSE Respond(200, QueueView_to_dict(queue[1]), rs_tasks)

\* cancel_tasks: set_task_status(task, FINISHED) for every task of the list
cancel_tasks(tasks, list) ==
    [t \in TaskIds |->
        IF \E i \in 1..Len(list) : list[i].taskid = t
        THEN [(CHOOSE d \in {list[i].data : i \in 1..Len(list)} : d.uid = t)
                 EXCEPT !.status = FINISHED]
        ELSE tasks[t]]

cancel_crashed_queue_tasks ==
    /\ pc.op = "cancel_crashed_queue_tasks"
    /\ LET queue == dict_get(Snapshot.queues, pc.arg)
       IN IF queue = None
          THEN Respond(404, NotFound("Queue doesn't exist"), rs_tasks)
          ELSE Respond(302, "redirect",
                       cancel_tasks(rs_tasks, KartonQueue_crashed_tasks(queue[1])))

cancel_pending_queue_tasks ==
    /\ pc.op = "cancel_pending_queue_tasks"
    /\ LET queue == dict_get(Snapshot.queues, pc.arg)
       IN IF queue = None
          THEN Respond(404, NotFound("Queue doesn't exist"), rs_tasks)
          ELSE Respond(302, "redirect",
                       cancel_tasks(rs_tasks, KartonQueue_pending_tasks(queue[1])))

\* restart_task: a fork of the task is spawned under a new uid and the
\* original is marked FINISHED
restart_task(tasks, task) ==
    LET uid == CHOOSE t \in TaskIds :
                  tasks[t] = NoneTask /\ \A u \in TaskIds : tasks[u] = NoneTask => t <= u
    IN [tasks EXCEPT ![uid] = [task.data EXCEPT !.uid = uid, !.status = SPAWNED],
                     ![task.taskid] = [task.data EXCEPT !.status = FINISHED]]

RECURSIVE restart_tasks(_, _, _)
restart_tasks(tasks, list, i) ==
    IF i > Len(list) THEN tasks
    ELSE restart_tasks(restart_task(tasks, list[i]), list, i + 1)

\* the uids are drawn from TaskIds: a restart needs one free uid per fork
restart_crashed_queue_tasks ==
    /\ pc.op = "restart_crashed_queue_tasks"
    /\ LET queue == dict_get(Snapshot.queues, pc.arg)
       IN IF queue = None
          THEN Respond(404, NotFound("Queue doesn't exist"), rs_tasks)
          ELSE /\ Cardinality(TaskIds \ ExistingTasks) >=
                     Len(KartonQueue_crashed_tasks(queue[1]))
               /\ Respond(302, "redirect",
                          restart_tasks(rs_tasks, KartonQueue_crashed_tasks(queue[1]), 1))

\* karton.backend.get_task(task_id), and the answer of the route
get_task_api ==
    /\ pc.op = "idle"
    /\ \E task_id \in TaskIds :
          LET task == rs_tasks[task_id]
          IN response' = IF task = NoneTask
                         THEN [op |-> "get_task_api", arg |-> task_id, code |-> 404,
                               body |-> NotFound("Task doesn't exist")]
                         ELSE [op |-> "get_task_api", arg |-> task_id, code |-> 200,
                               body |-> task]
    /\ UNCHANGED <<store, pc, keys, fetched, state, gauges, threads>>

\* state.get_analysis(root_id): the analysis of the root id, empty if none
KartonState_get_analysis(analyses, root_id) ==
    IF root_id \in DOMAIN analyses THEN analyses[root_id] ELSE Analysis(root_id)

\* analysis.tasks is empty
KartonAnalysis_no_tasks(analysis) ==
    \A k \in DOMAIN analysis.queues : Len(analysis.queues[k]) = 0

\* the tasks of a list that are not CRASHED, as dictionaries
pending_dicts(list) ==
    LET F[i \in 0..Len(list)] ==
            IF i = 0 THEN <<>>
            ELSE IF list[i].data.status # CRASHED THEN Append(F[i - 1], list[i].data)
            ELSE F[i - 1]
    IN F[Len(list)]

AnalysisView_to_dict(analysis) ==
    [uid |-> analysis.rootid,
     queues |-> [k \in DOMAIN analysis.queues |-> pending_dicts(analysis.queues[k])]]

get_analysis_api ==
    /\ pc.op = "get_analysis_api"
    /\ LET analysis == KartonState_get_analysis(Snapshot.analyses, pc.arg)
       IN IF KartonAnalysis_no_tasks(analysis)
          THEN Respond(404, NotFound("Analysis doesn't exist"), rs_tasks)
          ELSE Respond(200, AnalysisView_to_dict(analysis), rs_tasks)

QueueRoutes == {"get_queue_api", "restart_crashed_queue_tasks",
                "cancel_crashed_queue_tasks", "cancel_pending_queue_tasks"}

NextApi ==
    \/ declare_task({<<"a">>}, {"R1"}, {1}, {NORMAL})
    \/ delete_task
    \/ register_bind(CoreIdentities \X {<<>>})
    \/ unregister_bind
    \/ \E op \in QueueRoutes : KartonState_keys(op, CoreIdentities)
    \/ KartonState_keys("get_analysis_api", Roots)
    \/ get_queue_api
    \/ restart_crashed_queue_tasks
    \/ cancel_crashed_queue_tasks
    \/ cancel_pending_queue_tasks
    \/ get_task_api
    \/ get_analysis_api

SpecApi == Init /\ [][NextApi]_vars

(***************************************************************************)
(* The cancel routes step by step: the KartonState, then one backend write *)
(* per task of the list, while the backend moves tasks on.                 *)
(***************************************************************************)
CancelRoutes == {"cancel_crashed_queue_tasks", "cancel_pending_queue_tasks"}

\* state = KartonState(karton.backend), the lookup of the queue and the list
\* that goes to cancel_tasks
cancel_queue_tasks_KartonState ==
    /\ pc.op \in CancelRoutes
    /\ LET queue == dict_get(Snapshot.queues, pc.arg)
       IN IF queue = None
          THEN Respond(404, NotFound("Queue doesn't exist"), rs_tasks)
          ELSE /\ pc' = [op |-> "cancel_tasks",
                         arg |-> [route |-> pc.op, queue_name |-> pc.arg,
                                  tasks |-> IF pc.op = "cancel_crashed_queue_tasks"
                                            THEN KartonQueue_crashed_tasks(queue[1])
                                            ELSE KartonQueue_pending_tasks(queue[1])]]
               /\ fetched' = Mget
               /\ state' = Snapshot
               /\ keys' = <<>>
               /\ UNCHANGED <<store, response, gauges, threads>>

\* one iteration of the loop of cancel_tasks
cancel_tasks_loop ==
    /\ pc.op = "cancel_tasks"
    /\ Len(pc.arg.tasks) > 0
    /\ rs_tasks' = cancel_tasks(rs_tasks, <<Head(pc.arg.tasks)>>)
    /\ pc' = [pc EXCEPT !.arg.tasks = Tail(@)]
    /\ UNCHANGED <<rs_binds, rs_outputs, rs_clients, keys, fetched, state, response,
                   gauges, threads>>

\* return redirect(request.referrer)
cancel_tasks_return ==
    /\ pc.op = "cancel_tasks"
    /\ Len(pc.arg.tasks) = 0
    /\ response' = [op |-> pc.arg.route, arg |-> pc.arg.queue_name, code |-> 302,
                    body |-> "redirect"]
    /\ pc' = Idle
    /\ UNCHANGED <<store, keys, fetched, state, gauges, threads>>

\* a consumer or another request changes the status of a task while the
\* cancel request is between its KartonState and its last write
set_task_status_meanwhile ==
    /\ pc.op = "cancel_tasks"
    /\ \E t \in TaskIds : \E s \in TaskState :
          /\ rs_tasks[t] # NoneTask
          /\ rs_tasks[t].status # s
          /\ rs_tasks' = [rs_tasks EXCEPT ![t].status = s]
    /\ UNCHANGED <<rs_binds, rs_outputs, rs_clients, request, gauges, threads>>

NextCancel ==
    \/ declare_task(CoreIdentities, {"R1"}, {1}, {NORMAL})
    \/ set_task_status
    \/ register_bind(CoreIdentities \X {<<>>})
    \/ unregister_bind
    \/ \E op \in CancelRoutes : KartonState_keys(op, CoreIdentities)
    \/ cancel_queue_tasks_KartonState
    \/ cancel_tasks_loop
    \/ cancel_tasks_return
    \/ set_task_status_meanwhile

SpecCancel == Init /\ [][NextCancel]_vars

\* str.lower() on the characters the sample identities use
lower(c) == IF c = "A" THEN "a" ELSE IF c = "B" THEN "b" ELSE c

\* the characters the class [a-z0-9] holds
SafeChars == {"a", "b", "c", "d", "e", "f", "g", "h", "i", "j", "k", "l", "m",
              "n", "o", "p", "q", "r", "s", "t", "u", "v", "w", "x", "y", "z",
              "0", "1", "2", "3", "4", "5", "6", "7", "8", "9"}

\* re.sub("[^a-z0-9]", "_", identity.lower())
safe_name(identity) ==
    [i \in 1..Len(identity) |->
        IF lower(identity[i]) \in SafeChars THEN lower(identity[i]) ELSE "_"]

\* task_infos[(safe_name, priority, status)] of one queue, 0 if not a key
task_infos(tasks, priority, status) ==
    Cardinality({i \in 1..Len(tasks) :
        tasks[i].data.priority = priority /\ tasks[i].data.status = status})

\* the labels product(TaskPriority, TaskState) gives one queue
ProductLabels(name) == {<<name, p, s>> : p \in TaskPriority, s \in TaskState}

\* Gauge.labels(...).set(value)
Gauge_set(gauge, labels, value) ==
    [l \in DOMAIN gauge \cup {labels} |-> IF l = labels THEN value ELSE gauge[l]]

\* the body of the loop over state.queues.values()
varz_queue(g, queue) ==
    LET name == safe_name(queue.name)
        tasks == KartonQueue_tasks(queue)
        zeroed == [l \in DOMAIN g.tasks \cup ProductLabels(name) |->
                      IF l \in ProductLabels(name) THEN 0 ELSE g.tasks[l]]
        counted == [l \in DOMAIN zeroed |->
                      IF l \in ProductLabels(name) /\ task_infos(tasks, l[2], l[3]) > 0
                      THEN task_infos(tasks, l[2], l[3])
                      ELSE zeroed[l]]
    IN [tasks |-> counted,
        replicas |-> Gauge_set(g.replicas, <<name, queue.version>>, queue.replicas)]

RECURSIVE varz_queues(_, _, _, _)
varz_queues(g, queues, order, i) ==
    IF i > Len(order) THEN g
    ELSE varz_queues(varz_queue(g, queues[order[i]]), queues, order, i + 1)

\* varz: both gauges are cleared, then filled queue by queue, in the order of
\* state.queues
varz ==
    /\ pc.op = "varz"
    /\ \E order \in Perms(DOMAIN Snapshot.queues) :
          LET g == varz_queues([tasks |-> EmptyDict, replicas |-> EmptyDict],
                               Snapshot.queues, order, 1)
          IN /\ karton_tasks' = g.tasks
             /\ karton_replicas' = g.replicas
             /\ response' = [op |-> pc.op, arg |-> pc.arg, code |-> 200, body |-> g]
    /\ fetched' = Mget
    /\ state' = Snapshot
    /\ pc' = Idle
    /\ keys' = <<>>
    /\ UNCHANGED <<store, threads>>

NextVarz ==
    \/ declare_task({<<"A">>}, {"R1"}, {1}, TaskPriority)
    \/ set_task_status
    \/ delete_task
    \/ register_bind(Identities \X {<<>>})
    \/ unregister_bind
    \/ KartonState_keys("varz", {<<>>})
    \/ varz

SpecVarz == Init /\ [][NextVarz]_vars

\* a bind that the last answered request saw is removed; that answer is kept
\* for comparison with the next one
unregister_bind_after(op) ==
    /\ Quiet
    /\ response.op = op
    /\ \E i \in DOMAIN rs_binds \cap DOMAIN state.queues :
          rs_binds' = [k \in DOMAIN rs_binds \ {i} |-> rs_binds[k]]
    /\ UNCHANGED <<rs_outputs, rs_tasks, rs_clients, request, gauges, threads>>

\* a sequence of exports over a store whose binds come and go
NextExports ==
    \/ declare_task({<<"A">>}, {"R1"}, {1}, {NORMAL})
    \/ register_bind(Identities \X {<<>>})
    \/ unregister_bind_after("varz")
    \/ KartonState_keys("varz", {<<>>})
    \/ KartonState_keys_again("varz")
    \/ varz

SpecExports == Init /\ [][NextExports]_vars

(***************************************************************************)
(* varz served by several threads of one process: the gauges are module    *)
(* globals, every call on them is atomic, and the calls of different       *)
(* requests interleave.  The store does not change while a request runs.   *)
(***************************************************************************)
NoThreads == \A w \in Workers : threads[w] = IdleThread

\* what the gauges hold, as generate_latest() renders them
generate_latest == [tasks |-> karton_tasks, replicas |-> karton_replicas]

\* state = KartonState(karton.backend)
varz_KartonState(w) ==
    /\ threads[w].pc = "idle"
    /\ \E ks \in Perms(ExistingTasks) :
       \E order \in Perms(DOMAIN rs_binds) :
          threads' = [threads EXCEPT ![w] =
              [pc |-> "clear_tasks",
               queues |-> KartonState(rs_binds, [i \in 1..Len(ks) |-> rs_tasks[ks[i]]],
                                      rs_clients).queues,
               order |-> order, i |-> 1, response |-> None]]
    /\ UNCHANGED <<store, request, gauges>>

\* karton_tasks.clear()
varz_clear_tasks(w) ==
    /\ threads[w].pc = "clear_tasks"
    /\ karton_tasks' = EmptyDict
    /\ threads' = [threads EXCEPT ![w].pc = "clear_replicas"]
    /\ UNCHANGED <<store, request, karton_replicas>>

\* karton_replicas.clear()
varz_clear_replicas(w) ==
    /\ threads[w].pc = "clear_replicas"
    /\ karton_replicas' = EmptyDict
    /\ threads' = [threads EXCEPT ![w].pc = "queues"]
    /\ UNCHANGED <<store, request, karton_tasks>>

\* one iteration of the loop over state.queues.values()
varz_loop(w) ==
    /\ threads[w].pc = "queues"
    /\ threads[w].i <= Len(threads[w].order)
    /\ LET g == varz_queue(generate_latest, threads[w].queues[threads[w].order[threads[w].i]])
       IN /\ karton_tasks' = g.tasks
          /\ karton_replicas' = g.replicas
    /\ threads' = [threads EXCEPT ![w].i = @ + 1]
    /\ UNCHANGED <<store, request>>

\* return Response(generate_latest(), ...)
varz_Response(w) ==
    /\ threads[w].pc = "queues"
    /\ threads[w].i > Len(threads[w].order)
    /\ threads' = [threads EXCEPT ![w].pc = "sent", ![w].response = Some(generate_latest)]
    /\ UNCHANGED <<store, request, gauges>>

\* the request is over: its locals are dropped
varz_return(w) ==
    /\ threads[w].pc = "sent"
    /\ threads' = [threads EXCEPT ![w] = IdleThread]
    /\ UNCHANGED <<store, request, gauges>>

NextThreads ==
    \/ NoThreads /\ declare_task({<<"a">>}, {"R1"}, {1}, {NORMAL})
    \/ NoThreads /\ register_bind(CoreIdentities \X {<<>>})
    \/ NoThreads /\ unregister_bind
    \/ \E w \in Workers : varz_KartonState(w)
    \/ \E w \in Workers : varz_clear_tasks(w)
    \/ \E w \in Workers : varz_clear_replicas(w)
    \/ \E w \in Workers : varz_loop(w)
    \/ \E w \in Workers : varz_Response(w)
    \/ \E w \in Workers : varz_return(w)

SpecThreads == Init /\ [][NextThreads]_vars

(***************************************************************************)
(* src/karton/dashboard/graph/graph.py: KartonNode, KartonGraph            *)
(***************************************************************************)
\* filters and output descriptors: dictionaries of strings
Filters == {[type |-> "x"], [kind |-> "k"]}
Outputs == {[type |-> "y"], [type |-> "x", kind |-> "k"]}

\* lists of at most MaxFilters dictionaries
ListsOf(D) == UNION {[1..n -> D] : n \in 0..MaxFilters}

\* the identity a service has when it sets none
NoIdentity == <<>>

\* the binds and output declarations the routing graph is built from
GraphBinds == (CoreIdentities \X ListsOf(Filters)) \cup {<<NoIdentity, <<>>>>}
GraphOutputs == CoreIdentities \X ListsOf(Outputs)

\* the truth value python gives a list or None
Truthy(opt) == opt # None /\ Len(opt[1]) > 0

KartonNode(identity, filters, outputs) ==
    [identity |-> identity, filters |-> filters, outputs |-> outputs]

filter_contained(filter, output) ==
    \A k \in DOMAIN filter : k \in DOMAIN output /\ output[k] = filter[k]

\* __contains__ demanding that every output satisfies the filter
KartonNode_contains_AllOutputs(self, other) ==
    /\ Truthy(self.filters)
    /\ Truthy(other.outputs)
    /\ \E i \in 1..Len(self.filters[1]) :
          \A j \in 1..Len(other.outputs[1]) :
             filter_contained(self.filters[1][i], other.outputs[1][j])

\* other in self
KartonNode_contains(self, other) ==
    /\ Truthy(self.filters)
    /\ Truthy(other.outputs)
    /\ \E i \in 1..Len(self.filters[1]) :
          \E j \in 1..Len(other.outputs[1]) :
             filter_contained(self.filters[1][i], other.outputs[1][j])

\* the dictionary "values" of build_nodes: its keys in insertion order, its
\* entries, and the exception raised, if any
NoValues == [order |-> <<>>, entries |-> EmptyDict, raised |-> "no"]

EmptyValue == [filters |-> None, outputs |-> None]

\* one iteration of the loop over the binds
build_nodes_bind(values, identity, filters) ==
    LET values1 == IF Len(identity) > 0 /\ identity \notin DOMAIN values.entries
                   THEN [values EXCEPT !.order = Append(@, identity),
                                       !.entries = @ @@ (identity :> EmptyValue)]
                   ELSE values
    IN IF identity \notin DOMAIN values1.entries
       THEN [values1 EXCEPT !.raised = "KeyError"]
       ELSE [values1 EXCEPT !.entries[identity].filters = Some(filters)]

\* one iteration of the loop over the output declarations
build_nodes_outputs(values, identity, outputs) ==
    LET values1 == IF identity \notin DOMAIN values.entries
                   THEN [values EXCEPT !.order = Append(@, identity),
                                       !.entries = @ @@ (identity :> EmptyValue)]
                   ELSE values
    IN [values1 EXCEPT !.entries[identity].outputs = Some(outputs)]

RECURSIVE build_nodes_binds(_, _, _, _)
build_nodes_binds(values, binds, order, i) ==
    IF i > Len(order) \/ values.raised # "no" THEN values
    ELSE build_nodes_binds(build_nodes_bind(values, order[i], binds[order[i]].filters),
                           binds, order, i + 1)

RECURSIVE build_nodes_all_outputs(_, _, _, _)
build_nodes_all_outputs(values, outputs, order, i) ==
    IF i > Len(order) \/ values.raised # "no" THEN values
    ELSE build_nodes_all_outputs(build_nodes_outputs(values, order[i], outputs[order[i]]),
                                 outputs, order, i + 1)

\* build_nodes: the exception raised, if any, and self.nodes
build_nodes(binds, bind_order, outputs, output_order) ==
    LET values == build_nodes_all_outputs(
                      build_nodes_binds(NoValues, binds, bind_order, 1),
                      outputs, output_order, 1)
    IN [raised |-> values.raised,
        nodes |-> IF values.raised # "no" THEN <<>>
                  ELSE [i \in 1..Len(values.order) |->
                           KartonNode(values.order[i],
                                      values.entries[values.order[i]].filters,
                                      values.entries[values.order[i]].outputs)]]

\* create_graph adding the edge to the adjacency set of the consumer
create_graph_ConsumerKeyed(nodes) ==
    [identity \in {nodes[i].identity : i \in 1..Len(nodes)} |->
        {nodes[j].identity : j \in {j \in 1..Len(nodes) :
            \E i \in 1..Len(nodes) :
               /\ nodes[i].identity = identity
               /\ KartonNode_contains(nodes[i], nodes[j])}}]

\* create_graph: self.graph[other.identity] holds node.identity for every
\* pair with "other in node"
create_graph(nodes) ==
    [identity \in {nodes[i].identity : i \in 1..Len(nodes)} |->
        {nodes[j].identity : j \in {j \in 1..Len(nodes) :
            \E i \in 1..Len(nodes) :
               /\ nodes[i].identity = identity
               /\ KartonNode_contains(nodes[j], nodes[i])}}]

\* networkx.DiGraph(self.graph): an edge u -> v for every v in graph[u]
DiGraph(graph) ==
    [nodes |-> DOMAIN graph,
     edges |-> UNION {{<<u, v>> : v \in graph[u]} : u \in DOMAIN graph}]

\* a service declares the outputs it may produce
declare_outputs(decls) ==
    /\ Quiet
    /\ \E d \in decls :
          /\ d[1] \notin DOMAIN rs_outputs
          /\ rs_outputs' = rs_outputs @@ (d[1] :> d[2])
    /\ Discard
    /\ UNCHANGED <<rs_binds, rs_tasks, rs_clients, gauges, threads>>

\* src/karton/dashboard/app.py generate_graph and KartonGraph.generate_graph
generate_graph ==
    /\ pc.op = "idle"
    /\ \E bind_order \in Perms(DOMAIN rs_binds) :
       \E output_order \in Perms(DOMAIN rs_outputs) :
          LET built == build_nodes(rs_binds, bind_order, rs_outputs, output_order)
              graph == create_graph(built.nodes)
          IN response' =
                IF built.raised # "no"
                THEN [op |-> "generate_graph", arg |-> <<>>, code |-> 500,
                      body |-> built.raised]
                ELSE [op |-> "generate_graph", arg |-> <<>>, code |-> 200,
                      body |-> [nodes |-> built.nodes, graph |-> graph,
                                nx_graph |-> DiGraph(graph)]]
    /\ UNCHANGED <<store, pc, keys, fetched, state, gauges, threads>>

NextGraph ==
    \/ register_bind(GraphBinds)
    \/ unregister_bind
    \/ declare_outputs(GraphOutputs)
    \/ generate_graph

SpecGraph == Init /\ [][NextGraph]_vars

(***************************************************************************)
(* Properties of the aggregation                                           *)
(***************************************************************************)
\* a KartonState has been built from fetched over the binds of the store
Aggregated == response.op # "none"

Fetched == {fetched[i] : i \in 1..Len(fetched)} \ {NoneTask}

HasReceiver(r) == "receiver" \in DOMAIN r.headers

\* a record that is not FINISHED and whose receiver names a known bind
Live(r) == /\ HasReceiver(r)
           /\ r.status # FINISHED
           /\ r.headers.receiver \in DOMAIN rs_binds

\* the number of entries of a task list that carry the task id uid
Occurrences(list, uid) == Cardinality({i \in 1..Len(list) : list[i].taskid = uid})

TaskIdsOf(list) == {list[i].taskid : i \in 1..Len(list)}

\* C1: after the aggregation every live record is in exactly one of the
\* pending and crashed lists of its receiver's queue, in crashed iff its
\* status is CRASHED, and no queue has a task in both lists.
C1_ExactlyOneList ==
    Aggregated =>
        /\ \A r \in Fetched : Live(r) =>
              LET q == state.queues[r.headers.receiver] IN
              /\ Occurrences(q.crashed, r.uid) = (IF r.status = CRASHED THEN 1 ELSE 0)
              /\ Occurrences(q.tasks, r.uid) = (IF r.status = CRASHED THEN 0 ELSE 1)
        /\ \A q \in DOMAIN state.queues :
              TaskIdsOf(state.queues[q].tasks) \cap TaskIdsOf(state.queues[q].crashed) = {}

C1_Witness ==
    /\ Aggregated
    /\ \E q \in DOMAIN state.queues :
          /\ Len(state.queues[q].tasks) > 0
          /\ Len(state.queues[q].crashed) > 0

\* C2: every live record is exactly once in analyses[root_uid][receiver] and
\* under no other analysis or queue key; every task under analyses[R] has
\* root id R; no analysis of the map is without tasks.
C2_AnalysisPlacement ==
    Aggregated =>
        /\ \A r \in Fetched : Live(r) =>
              /\ r.root_uid \in DOMAIN state.analyses
              /\ r.headers.receiver \in DOMAIN state.analyses[r.root_uid].queues
              /\ \A R \in DOMAIN state.analyses :
                    \A k \in DOMAIN state.analyses[R].queues :
                       Occurrences(state.analyses[R].queues[k], r.uid) =
                          (IF R = r.root_uid /\ k = r.headers.receiver THEN 1 ELSE 0)
        /\ \A R \in DOMAIN state.analyses :
              /\ state.analyses[R].rootid = R
              /\ DOMAIN state.analyses[R].queues # {}
              /\ \A k \in DOMAIN state.analyses[R].queues :
                    LET list == state.analyses[R].queues[k] IN
                    /\ Len(list) > 0
                    /\ \A i \in 1..Len(list) : list[i].data.root_uid = R

\* two records of one root id with different receivers, under one analysis
C2_Witness ==
    /\ Aggregated
    /\ \E R \in DOMAIN state.analyses : Cardinality(DOMAIN state.analyses[R].queues) > 1

\* every task id of the two views
AllQueueTaskIds ==
    UNION {TaskIdsOf(state.queues[q].tasks) \cup TaskIdsOf(state.queues[q].crashed) :
              q \in DOMAIN state.queues}

AllAnalysisTaskIds ==
    UNION {UNION {TaskIdsOf(state.analyses[R].queues[k]) :
                     k \in DOMAIN state.analyses[R].queues} : R \in DOMAIN state.analyses}

ReceiverUnknown(r) == HasReceiver(r) /\ r.headers.receiver \notin DOMAIN rs_binds

\* C3: a record that is FINISHED or whose receiver names no known bind is in
\* no pending list, no crashed list and no analysis, and an analysis exists
\* only for the root id of some live record.
C3_DiscardedContributeNothing ==
    Aggregated =>
        /\ \A r \in Fetched : (r.status = FINISHED \/ ReceiverUnknown(r)) =>
              /\ r.uid \notin AllQueueTaskIds
              /\ r.uid \notin AllAnalysisTaskIds
        /\ \A R \in DOMAIN state.analyses :
              \E r \in Fetched : Live(r) /\ r.root_uid = R

\* a FINISHED record and a record of an unknown receiver were fetched next to
\* a live one
C3_Witness ==
    /\ Aggregated
    /\ \E r \in Fetched : r.status = FINISHED /\ HasReceiver(r) /\ r.headers.receiver \in DOMAIN rs_binds
    /\ \E r \in Fetched : Live(r)

RemoveAt(seq, i) == [j \in 1..(Len(seq) - 1) |-> IF j < i THEN seq[j] ELSE seq[j + 1]]

\* a value that is absent or lacks the receiver header
Bad(v) == v = NoneTask \/ ~HasReceiver(v)

\* C10: an absent value or a record without the receiver header is skipped:
\* the queues and analyses are those built from the other values alone.
C10_BadRecordSkipped ==
    Aggregated =>
        \A i \in 1..Len(fetched) : Bad(fetched[i]) =>
            state = KartonState(rs_binds, RemoveAt(fetched, i), rs_clients)

\* a task vanished between keys and mget, and a live record came after it
C10_Witness ==
    /\ Aggregated
    /\ \E i, j \in 1..Len(fetched) :
          /\ i < j
          /\ fetched[i] = NoneTask
          /\ fetched[j] # NoneTask
          /\ Live(fetched[j])
(***************************************************************************)
(* Properties of the routing graph                                         *)
(***************************************************************************)
GraphAnswered == response.op = "generate_graph"
GraphBuilt == GraphAnswered /\ response.code = 200

\* the declared filters and outputs of an identity, empty when it has none
FiltersOf(A) == IF A \in DOMAIN rs_binds THEN rs_binds[A].filters ELSE <<>>
OutputsOf(B) == IF B \in DOMAIN rs_outputs THEN rs_outputs[B] ELSE <<>>

\* every key/value pair of F is present with an equal value in O
SubDict(F, O) == \A k \in DOMAIN F : k \in DOMAIN O /\ O[k] = F[k]

\* some output descriptor of B satisfies some filter of A
Feeds(B, A) ==
    \E i \in 1..Len(FiltersOf(A)) : \E j \in 1..Len(OutputsOf(B)) :
        SubDict(FiltersOf(A)[i], OutputsOf(B)[j])

\* C4: for every ordered pair of nodes (A, B), A = B included, the directed
\* edge B -> A exists iff some filter of A is contained in some output
\* descriptor of B.
C4_EdgeIffFilterMatched ==
    GraphBuilt =>
        \A A \in response.body.nx_graph.nodes : \A B \in response.body.nx_graph.nodes :
            (<<B, A>> \in response.body.nx_graph.edges) <=> Feeds(B, A)

\* a self-edge; an edge B -> A without the edge A -> B; and a pair where A
\* has filters and B outputs, several of them, but none matches
C4_Witness ==
    /\ GraphBuilt
    /\ \E A \in response.body.nx_graph.nodes : <<A, A>> \in response.body.nx_graph.edges
    /\ \E A \in response.body.nx_graph.nodes : \E B \in response.body.nx_graph.nodes :
          /\ A # B
          /\ Len(OutputsOf(B)) > 1
          /\ <<B, A>> \in response.body.nx_graph.edges
          /\ <<A, B>> \notin response.body.nx_graph.edges
          /\ Len(FiltersOf(B)) > 0
          /\ Len(OutputsOf(A)) > 0

\* C5 as stated: graph[A] contains B iff the outputs of B satisfy a filter of
\* A, so that graph[A] is the set of identities A receives from.
C5_AdjacencyIsReceivesFrom ==
    GraphBuilt =>
        \A A \in DOMAIN response.body.graph : \A B \in DOMAIN response.body.graph :
            (B \in response.body.graph[A]) <=> Feeds(B, A)

\* C5 amended: graph[A] is the set of identities A sends to: it contains B
\* iff the outputs of A satisfy a filter of B.
C5_AdjacencyIsSendsTo ==
    GraphBuilt =>
        \A A \in DOMAIN response.body.graph :
            response.body.graph[A] = {B \in DOMAIN response.body.graph : Feeds(A, B)}

\* a producer whose adjacency set holds its consumer, and not the converse
C5_Witness ==
    /\ GraphBuilt
    /\ \E A \in DOMAIN response.body.graph : \E B \in DOMAIN response.body.graph :
          /\ A # B
          /\ B \in response.body.graph[A]
          /\ A \notin response.body.graph[B]

DeclaredIdentities == DOMAIN rs_binds \cup DOMAIN rs_outputs

\* C6: build_nodes and create_graph never fail, and yield exactly one node
\* and one adjacency key per identity of the binds or the outputs.
C6_OneNodePerIdentity ==
    GraphAnswered =>
        /\ response.code = 200
        /\ Len(response.body.nodes) = Cardinality(DeclaredIdentities)
        /\ {response.body.nodes[i].identity : i \in 1..Len(response.body.nodes)}
              = DeclaredIdentities
        /\ DOMAIN response.body.graph = DeclaredIdentities
(***************************************************************************)
(* Properties of the queue views and of the export                         *)
(***************************************************************************)
QueuesAnswered == response.op = "dashboard_get_queues_api"

\* the ids of list are in the order: last_update descending, then id ascending
OrderedByUpdateThenId(list) ==
    \A i \in 1..Len(list) : \A j \in 1..Len(list) : i < j =>
        \/ rs_tasks[list[i]].last_update > rs_tasks[list[j]].last_update
        \/ /\ rs_tasks[list[i]].last_update = rs_tasks[list[j]].last_update
           /\ list[i] < list[j]

\* C7: in every QueueView the pending and the crashed id lists are ordered by
\* last_update descending, and by task id ascending among equal last_update.
C7_OrderedWithIdTieBreak ==
    QueuesAnswered =>
        \A q \in DOMAIN response.body :
            /\ OrderedByUpdateThenId(response.body[q].tasks)
            /\ OrderedByUpdateThenId(response.body[q].crashed)

Exported == response.op = "varz"

\* C8: after an export every known bind has, for every priority and status,
\* a karton_tasks series whose value is the number of the tasks of its queue
\* with that priority and status.
C8_SeriesMatchQueue ==
    Exported =>
        \A b \in DOMAIN rs_binds : \A p \in TaskPriority : \A s \in TaskState :
            /\ <<safe_name(b), p, s>> \in DOMAIN karton_tasks
            /\ karton_tasks[<<safe_name(b), p, s>>] =
                  Cardinality({t \in TaskIds :
                      /\ rs_tasks[t] # NoneTask
                      /\ HasReceiver(rs_tasks[t])
                      /\ rs_tasks[t].headers.receiver = b
                      /\ rs_tasks[t].status # FINISHED
                      /\ rs_tasks[t].priority = p
                      /\ rs_tasks[t].status = s})
(***************************************************************************)
(* Properties of the per-entity routes                                     *)
(***************************************************************************)
\* the route op answers in this step
Answers(op) == pc.op = op /\ pc'.op = "idle"

\* the records the answering route fetches that are live under root id R
LiveUnder(R) == {i \in 1..Len(Mget) : Mget[i] # NoneTask /\ Live(Mget[i]) /\ Mget[i].root_uid = R}

\* the records the answering route fetches that are live in queue q
LiveIn(q) == {i \in 1..Len(Mget) :
                 Mget[i] # NoneTask /\ Live(Mget[i]) /\ Mget[i].headers.receiver = q}

\* C9: a lookup of an unknown entity answers not-found and leaves the store
\* as it is: a queue query, restart or cancel for an identity without a bind,
\* a task query for an unknown id, an analysis query for a root id without a
\* live record; a known bind without tasks answers a view with empty lists.
C9_NotFoundWritesNothing ==
    [][/\ \A op \in QueueRoutes :
             (Answers(op) /\ pc.arg \notin DOMAIN rs_binds) =>
                 /\ response'.code = 404
                 /\ response'.body = [error |-> "Queue doesn't exist"]
                 /\ store' = store
       /\ (Answers("get_queue_api") /\ pc.arg \in DOMAIN rs_binds) =>
             /\ response'.code = 200
             /\ response'.body.identity = pc.arg
             /\ LiveIn(pc.arg) = {} =>
                   response'.body.tasks = <<>> /\ response'.body.crashed = <<>>
       /\ (Answers("get_analysis_api") /\ LiveUnder(pc.arg) = {}) =>
             /\ response'.code = 404
             /\ response'.body = [error |-> "Analysis doesn't exist"]
             /\ store' = store
       /\ (pc.op = "idle" /\ response'.op = "get_task_api" /\ response' # response
              /\ rs_tasks[response'.arg] = NoneTask) =>
             /\ response'.code = 404
             /\ response'.body = [error |-> "Task doesn't exist"]
             /\ store' = store
      ]_vars

\* a cancel for a queue whose bind is gone was answered not-found while a
\* crashed task of that queue is still stored
C9_Witness ==
    /\ response.op = "cancel_crashed_queue_tasks"
    /\ response.code = 404
    /\ \E t \in TaskIds :
          /\ rs_tasks[t] # NoneTask
          /\ HasReceiver(rs_tasks[t])
          /\ rs_tasks[t].headers.receiver = response.arg
          /\ rs_tasks[t].status = CRASHED

(***************************************************************************)
(* Properties of requests served side by side                              *)
(***************************************************************************)
\* what a varz request over the queues returns when no other request runs
varz_alone(queues, order) ==
    varz_queues([tasks |-> EmptyDict, replicas |-> EmptyDict], queues, order, 1)

\* C11: a varz export that runs side by side with another varz export over
\* the same, unchanged store returns the series and values it returns when
\* it runs alone.
C11_ExportAsAlone ==
    \A w \in Workers :
        threads[w].pc = "sent" =>
            threads[w].response = Some(varz_alone(threads[w].queues, threads[w].order))

\* C12: a second KartonState() over the store the first one saw yields the
\* same queues and analyses, task lists in the same order, whatever order
\* the keys are enumerated in on each call.
C12_SnapshotTwiceEqual ==
    [][(pc.op = "get_queues_api" /\ response.op = "get_queues_api" /\ pc'.op = "idle") =>
          /\ state' = state
          /\ response'.body = response.body
      ]_vars

(***************************************************************************)
(* Properties of the replica counts                                        *)
(***************************************************************************)
\* the connections whose name is the identity
Connections(identity) == {i \in 1..Len(rs_clients) : rs_clients[i].name = identity}

\* C13: the answer holds exactly the known binds, connections create no
\* queue, and the replicas of each bind is the number of connections whose
\* name is its identity: 0 if there is none, whatever other names connect.
C13_ReplicasCountConnections ==
    response.op = "get_queues_api" =>
        /\ DOMAIN response.body = DOMAIN rs_binds
        /\ \A q \in DOMAIN rs_binds :
              response.body[q].replicas = Cardinality(Connections(q))

\* an answer with a bind that has one connection, a bind that has none and
\* a connection under a name that is no bind
C13_Witness ==
    /\ response.op = "get_queues_api"
    /\ \E q \in DOMAIN rs_binds : response.body[q].replicas = 0
    /\ \E i \in 1..Len(rs_clients) : rs_clients[i].name \notin DOMAIN rs_binds
    /\ \E q \in DOMAIN rs_binds : response.body[q].replicas = 1

(***************************************************************************)
(* Properties of a sequence of exports                                     *)
(***************************************************************************)
\* the series of a gauge whose name label is the name
SeriesNamed(gauge, name) == {l \in DOMAIN gauge : l[1] = name}

\* C14: an export that follows the removal of a bind the export before it
\* saw holds no karton_tasks and no karton_replicas series under the name of
\* that queue, and holds for every bind still registered the karton_tasks
\* series of every priority and status and its karton_replicas series.
C14_RemovedBindLeavesExport ==
    [][(pc.op = "varz" /\ pc'.op = "idle") =>
          /\ \A b \in DOMAIN state.queues \ DOMAIN rs_binds :
                /\ SeriesNamed(karton_tasks', safe_name(b)) = {}
                /\ SeriesNamed(karton_replicas', safe_name(b)) = {}
          /\ \A b \in DOMAIN rs_binds :
                /\ ProductLabels(safe_name(b)) \subseteq DOMAIN karton_tasks'
                /\ <<safe_name(b), rs_binds[b].version>> \in DOMAIN karton_replicas'
      ]_vars

(***************************************************************************)
(* Properties of the cancel routes                                         *)
(***************************************************************************)
\* the cancel request writes in this step
CancelWrites == pc.op = "cancel_tasks" /\ pc' # pc

\* C15: a task whose status a write of a cancel request changes becomes
\* FINISHED, is routed to the queue of the request, and just before the
\* write is CRASHED for cancel_crashed and not CRASHED for cancel_pending;
\* the write changes no other task, whatever status changes happened
\* between the KartonState of the request and the write.
C15_CancelWritesOnlyItsList ==
    [][CancelWrites =>
          \A t \in TaskIds :
              rs_tasks'[t] # rs_tasks[t] =>
                  /\ rs_tasks[t] # NoneTask
                  /\ rs_tasks'[t].status = FINISHED
                  /\ HasReceiver(rs_tasks[t])
                  /\ rs_tasks[t].headers.receiver = pc.arg.queue_name
                  /\ pc.arg.route = "cancel_crashed_queue_tasks" => rs_tasks[t].status = CRASHED
                  /\ pc.arg.route = "cancel_pending_queue_tasks" => rs_tasks[t].status # CRASHED
      ]_vars
====
